---------------------------- MODULE Spec2Model ----------------------------
(***************************************************************************)
(* Model of the order-date logic of simple-subs:                           *)
(*   getScheduleIndex / isSchoolDay / getDateOptions  (constants/Actions)  *)
(*   getOrdersArr                                     (HomeScreen)         *)
(*   InfoModal's close-by-timeout effect              (InfoModal)          *)
(*                                                                         *)
(* Time is counted in ticks; a calendar day has TicksPerDay ticks and an   *)
(* instant is the number of ticks since 1970-01-01T00:00 local time.       *)
(* moment objects are mutable, so they live in a heap: an address maps to  *)
(* the instant the object currently denotes.                               *)
(***************************************************************************)
EXTENDS Integers, Sequences, FiniteSets, TLC

\* ------------------------------------------------------------------ bounds
\* times of day that are told apart (0 is midnight)
TimesOfDay == {0, 1, 2}
TicksPerDay == Cardinality(TimesOfDay)
\* number of orders a user may hold in the model
MaxOrders == 2
\* number of calendar days the clock may run through
NowDays == 1
\* number of calls of one function that a behaviour may make
MaxCalls == 2
\* longest schedule cycle drawn for getScheduleIndex
MaxCycle == 3
\* days before / after the schedule's start date drawn for getScheduleIndex
MaxDayOffset == 7
\* seconds the modal's clock may run
MaxClock == 12
\* number of timers a behaviour may set
MaxTimers == 4
\* number of runs of the home screen's storage effect
MaxEffectRuns == 2

\* ------------------------------------------------------- calendar (moment)
\* civil date <<year, month, day>> of a day number (days since 1970-01-01)
CivilFromDays(z0) ==
  LET z   == z0 + 719468
      era == z \div 146097
      doe == z - era * 146097
      yoe == (doe - doe \div 1460 + doe \div 36524 - doe \div 146096) \div 365
      doy == doe - (365 * yoe + yoe \div 4 - yoe \div 100)
      mp  == (5 * doy + 2) \div 153
      d   == doy - (153 * mp + 2) \div 5 + 1
      m   == IF mp < 10 THEN mp + 3 ELSE mp - 9
      y   == yoe + era * 400 + (IF m <= 2 THEN 1 ELSE 0)
  IN  <<y, m, d>>

\* day number of a civil date
DaysFromCivil(y0, m, d) ==
  LET y   == IF m <= 2 THEN y0 - 1 ELSE y0
      era == y \div 400
      yoe == y - era * 400
      doy == (153 * (IF m > 2 THEN m - 3 ELSE m + 9) + 2) \div 5 + d - 1
      doe == yoe * 365 + yoe \div 4 - yoe \div 100 + doy
  IN  era * 146097 + doe - 719468

\* calendar day an instant falls on
DayOf(t) == t \div TicksPerDay

\* instant of midnight of a day
Midnight(day) == day * TicksPerDay

\* moment.format(ISO_FORMAT): "YYYY-MM-DD", kept as the tuple <<Y, M, D>>
formatISO(t) == CivilFromDays(DayOf(t))

\* moment(isoString): local midnight of that date
parseISO(iso) == Midnight(DaysFromCivil(iso[1], iso[2], iso[3]))

\* toReadable: ISO string -> display string ("Month Day, Year")
toReadable(iso) == [month |-> iso[2], day |-> iso[3], year |-> iso[1]]

\* toISO: display string -> ISO string
toISO(readable) == <<readable.year, readable.month, readable.day>>

\* moment.format(READABLE_FORMAT)
formatReadable(t) == toReadable(formatISO(t))

\* a.diff(b, "days"): whole days between two instants, truncated toward zero
diffDays(a, b) ==
  IF a >= b THEN (a - b) \div TicksPerDay ELSE -((b - a) \div TicksPerDay)

\* JavaScript's % : the remainder takes the sign of the dividend
jsRemainder(a, n) == IF a >= 0 THEN a % n ELSE -((-a) % n)

\* values[i] of a JavaScript array of booleans: "undefined" off the array
arrayGet(values, i) ==
  IF i >= 0 /\ i < Len(values)
    THEN (IF values[i + 1] THEN "true" ELSE "false")
    ELSE "undefined"

\* ------------------------------------------------------------- Schedule
\* the school's repeating schedule: Monday to Friday, anchored on a Monday
ScheduleStartDay == DaysFromCivil(2020, 8, 17)
Schedule ==
  [startDate |-> CivilFromDays(ScheduleStartDay),
   values    |-> <<TRUE, TRUE, TRUE, TRUE, TRUE, FALSE, FALSE>>]

\* getScheduleIndex(date, startDate, scheduleLength); date is an instant
getScheduleIndex(date, startDate, scheduleLength) ==
  jsRemainder(diffDays(date, parseISO(startDate)), scheduleLength)

\* isSchoolDay(date, schedule): "true", "false" or "undefined"
isSchoolDay(date, schedule) ==
  LET scheduleIndex == getScheduleIndex(date, schedule.startDate, Len(schedule.values))
  IN  arrayGet(schedule.values, scheduleIndex)


\* ------------------------------------------------------------------ state
VARIABLES
  heap,             \* moment objects: address -> instant
  orders,           \* state.orders: order id -> [key, date |-> address of a moment]
  focusedOrder,     \* <<>> (no order focused) or <<[date |-> display string]>>
  cutoffTime,       \* stateConstants.cutoffTime: address of a moment
  now,              \* the clock moment() reads
  dateOptions,      \* what the last call of getDateOptions returned
  scanned,          \* the ISO dates the last call of getDateOptions examined
  callTime,         \* the clock at the last call of getDateOptions / getOrdersArr
  calls,            \* number of calls made so far
  ordersArr,        \* what the last call of getOrdersArr returned
  sDate,            \* getScheduleIndex / isSchoolDay: the date argument
  sSchedule,        \* ... the schedule argument
  sIndex,           \* ... <<index>> returned for sDate, <<>> before the call
  sShifted,         \* ... <<index>> returned for sDate + scheduleLength days
  sSchoolDay,       \* ... <<value>> returned by isSchoolDay, <<>> before the call
  infoMessage,      \* redux state.infoMessage
  displayedMessage, \* InfoModal's displayedMessage state
  animation,        \* <<>> or <<[open, message]>>: a running Animated.timing
  timers,           \* pending setTimeout timers: set of [id, due]
  timeoutRef,       \* timeoutRef.current: id of the last timer set
  clock,            \* seconds since InfoModal was mounted
  lastChange,       \* clock at the last change of infoMessage
  closedBy,         \* what set infoMessage to the closed value last
  restarted,        \* whether a pending timer has been cleared for a newer message
  storage,          \* AsyncStorage item "@order_options": <<>> or <<JSON text>>
  orderOptions,     \* HomeScreen's orderOptions prop
  loadedData,       \* HomeScreen's loadedData state
  requests,         \* AsyncStorage requests issued and not yet served, in order
  resolved,         \* getItem results not yet handed to getData's caller
  alerts,           \* number of "Order Fields Changed" alerts shown
  effectRuns,       \* number of runs of the storage effect
  storedAtLoad      \* the item as the previous session left it

datesVars == <<heap, orders, focusedOrder, cutoffTime, now, dateOptions, scanned,
               callTime, calls, ordersArr>>
scheduleVars == <<sDate, sSchedule, sIndex, sShifted, sSchoolDay>>
modalVars == <<infoMessage, displayedMessage, animation, timers, timeoutRef, clock,
               lastChange, closedBy, restarted>>
homeVars == <<storage, orderOptions, loadedData, requests, resolved, alerts, effectRuns,
              storedAtLoad>>
vars == <<datesVars, scheduleVars, modalVars, homeVars>>

\* ----------------------------------------------------------- moment heap
OrderAddr(id) == <<"order", id>>
CutoffAddr == <<"cutoffTime", 0>>
LocalAddr == <<"local", 0>>

\* (mutant) hands out the cutoff moment itself instead of a new object
newMoment_shared(h, t) == [heap |-> h, ref |-> CutoffAddr]

\* moment(): a new object holding the current instant
newMoment(h, t) == [heap |-> (LocalAddr :> t) @@ h, ref |-> LocalAddr]

\* m.add(n, "days"): changes the object in place
momentAdd(h, ref, n) == [h EXCEPT ![ref] = @ + n * TicksPerDay]

\* m.startOf("day"): changes the object in place
momentStartOfDay(h, ref) == [h EXCEPT ![ref] = Midnight(DayOf(@))]

\* a.isAfter(b), a.isBefore(b), a.isSameOrAfter(b)
momentIsAfter(h, a, b) == h[a] > h[b]
momentIsBefore(h, a, b) == h[a] < h[b]
momentIsSameOrAfter(h, a, b) == h[a] >= h[b]

\* the objects of h that outlive a call (locals are garbage afterwards)
Surviving(h, before) == [a \in DOMAIN before |-> h[a]]

\* --------------------------------------------------------- getDateOptions
Window == 14

\* Object.keys(orders).map((id) => orders[id].date.format(ISO_FORMAT))
orderDatesOf(h, ords) == {formatISO(h[ords[id].date]) : id \in DOMAIN ords}

\* (mutant) forgets that the focused order may keep its own date
dateIsOpen_noFocus(h, date, orderDates, focused, isoDate) ==
  /\ isSchoolDay(h[date], Schedule) = "true"
  /\ isoDate \notin orderDates

\* the condition under which the loop keeps a date
dateIsOpen(h, date, orderDates, focused, isoDate) ==
  /\ isSchoolDay(h[date], Schedule) = "true"
  /\ \/ isoDate \notin orderDates
     \/ (focused # <<>> /\ toISO(focused[1].date) = isoDate)

\* (mutant) unshift instead of push
push_front(arr, x) == <<x>> \o arr

\* dateOptions.push(x)
push(arr, x) == Append(arr, x)

\* (mutant) one iteration too many
loopContinues_inclusive(i) == i <= Window

\* the loop's condition
loopContinues(i) == i < Window

\* the for loop: st = [heap, dateOptions, scanned]
RECURSIVE scanDates(_, _, _, _, _)
scanDates(i, st, date, orderDates, focused) ==
  IF ~loopContinues(i) THEN st
  ELSE LET isoDate == formatISO(st.heap[date])
           kept == IF dateIsOpen(st.heap, date, orderDates, focused, isoDate)
                     THEN push(st.dateOptions, toReadable(isoDate))
                     ELSE st.dateOptions
       IN  scanDates(i + 1,
                     [heap |-> momentAdd(st.heap, date, 1),
                      dateOptions |-> kept,
                      scanned |-> Append(st.scanned, isoDate)],
                     date, orderDates, focused)

\* (mutant) skips today already at the cutoff
startDate_sameOrAfter(m, cutoff) ==
  IF momentIsSameOrAfter(m.heap, m.ref, cutoff)
    THEN [heap |-> momentAdd(m.heap, m.ref, 1), ref |-> m.ref]
    ELSE m

\* the first date of the scan: today, or tomorrow after the cutoff
startDate(m, cutoff) ==
  IF momentIsAfter(m.heap, m.ref, cutoff)
    THEN [heap |-> momentAdd(m.heap, m.ref, 1), ref |-> m.ref]
    ELSE m

\* getDateOptions(orders, focusedOrder, cutoffTime) at clock t over heap h
getDateOptions(h, ords, focused, cutoff, t) ==
  LET orderDates == orderDatesOf(h, ords)
      start == startDate(newMoment(h, t), cutoff)
      end == scanDates(0, [heap |-> start.heap, dateOptions |-> <<>>, scanned |-> <<>>],
                       start.ref, orderDates, focused)
  IN  [heap |-> Surviving(end.heap, h), dateOptions |-> end.dateOptions,
       scanned |-> end.scanned]

\* ------------------------------------------------------------- inputs
Today == DaysFromCivil(2020, 12, 24)
OrderDays == {Today - 1, Today, Today + 1}
FocusDays == {Today, Today + 1}
OrderIds == 1 .. MaxOrders
FirstInstant == Midnight(Today)
LastInstant == Midnight(Today + NowDays) - 1
\* the cutoff as loaded today, at any time of day, or as loaded yesterday
CutoffInstants ==
  {Midnight(Today) + tod : tod \in TimesOfDay} \cup {Midnight(Today - 1) + 1}

\* variables of the other parts of the model, at rest
ScheduleIdle ==
  /\ sDate = 0 /\ sSchedule = Schedule
  /\ sIndex = <<>> /\ sShifted = <<>> /\ sSchoolDay = <<>>

ModalIdle ==
  /\ infoMessage = "    " /\ displayedMessage = "    " /\ animation = <<>>
  /\ timers = {} /\ timeoutRef = 0 /\ clock = 0
  /\ lastChange = 0 /\ closedBy = "none" /\ restarted = FALSE

HomeIdle ==
  /\ storage = <<>> /\ orderOptions = <<>> /\ loadedData = FALSE
  /\ requests = <<>> /\ resolved = <<>> /\ alerts = 0 /\ effectRuns = 0
  /\ storedAtLoad = <<>>

DatesIdle ==
  /\ heap = (CutoffAddr :> 0) /\ orders = <<>> /\ focusedOrder = <<>>
  /\ cutoffTime = CutoffAddr /\ now = 0 /\ dateOptions = <<>> /\ scanned = <<>>
  /\ callTime = 0 /\ calls = 0 /\ ordersArr = <<>>

\* the store as the screens find it: orders at midnight of their day
InitStore ==
  /\ \E ids \in SUBSET OrderIds : \E days \in [ids -> OrderDays] :
       /\ orders = [id \in ids |-> [key |-> id, date |-> OrderAddr(id)]]
       /\ \E c \in CutoffInstants :
            heap = [a \in {OrderAddr(id) : id \in ids} \cup {CutoffAddr} |->
                      IF a = CutoffAddr THEN c ELSE Midnight(days[a[2]])]
  /\ cutoffTime = CutoffAddr
  /\ focusedOrder \in {<<>>} \cup {<<[date |-> formatReadable(Midnight(d))]>> : d \in FocusDays}
  /\ now \in FirstInstant .. LastInstant
  /\ dateOptions = <<>> /\ scanned = <<>> /\ callTime = 0 /\ calls = 0
  /\ ordersArr = <<>>

\* time passes
Tick ==
  /\ now < LastInstant
  /\ now' = now + 1
  /\ UNCHANGED <<heap, orders, focusedOrder, cutoffTime, dateOptions, scanned,
                 callTime, calls, ordersArr>>
  /\ UNCHANGED <<scheduleVars, modalVars, homeVars>>

\* the order screen asks for the dates it may offer
CallGetDateOptions ==
  /\ calls < MaxCalls
  /\ LET r == getDateOptions(heap, orders, focusedOrder, cutoffTime, now)
     IN  /\ heap' = r.heap
         /\ dateOptions' = r.dateOptions
         /\ scanned' = r.scanned
  /\ callTime' = now
  /\ calls' = calls + 1
  /\ UNCHANGED <<orders, focusedOrder, cutoffTime, now, ordersArr>>
  /\ UNCHANGED <<scheduleVars, modalVars, homeVars>>

InitDates == InitStore /\ ScheduleIdle /\ ModalIdle /\ HomeIdle
NextDates == Tick \/ CallGetDateOptions
SpecDates == InitDates /\ [][NextDates]_vars

\* ------------------------------------------------- getDateOptions: claims
Range(seq) == {seq[i] : i \in DOMAIN seq}

\* day number a display string denotes
DayNumber(readable) == DaysFromCivil(readable.year, readable.month, readable.day)

\* the cutoff instant and the calendar day of the last call
CutoffInstant == heap[cutoffTime]
CallDay == DayOf(callTime)

\* the day the scan has to start on
ExpectedStartDay == IF callTime > CutoffInstant THEN CallDay + 1 ELSE CallDay

\* the candidate the scan holds in its i-th iteration (0-based): the call's
\* time of day on the i-th day of the window
Candidate(i) == Midnight(ExpectedStartDay + i) + (callTime - Midnight(CallDay))

\* an existing order is on that day
Occupied(day) == \E id \in DOMAIN orders : DayOf(heap[orders[id].date]) = day

\* the focused order is on that day
FocusedOn(day) == focusedOrder # <<>> /\ DayNumber(focusedOrder[1].date) = day

\* the display string of a day
Shown(day) == [month |-> CivilFromDays(day)[2], day |-> CivilFromDays(day)[3],
               year |-> CivilFromDays(day)[1]]

\* C1: a date of the scanned window is returned if and only if it is a school
\* day and either no existing order is on it or it is the focused order's
\* date; so an occupied date is returned only as the focused order's date.
C1_DateOptionsRule ==
  calls > 0 =>
    /\ \A i \in 0 .. Window - 1 :
         LET day == ExpectedStartDay + i
         IN  (Shown(day) \in Range(dateOptions)) <=>
               /\ isSchoolDay(Candidate(i), Schedule) = "true"
               /\ (~Occupied(day) \/ FocusedOn(day))
    /\ \A k \in DOMAIN dateOptions :
         Occupied(DayNumber(dateOptions[k])) => FocusedOn(DayNumber(dateOptions[k]))

\* C1 witness: two school days of the window hold an order; the one that is the
\* focused order's date is returned and the other one is not.
C1_Witness ==
  /\ calls > 0
  /\ \E d1, d2 \in ExpectedStartDay .. ExpectedStartDay + Window - 1 :
       /\ d1 # d2 /\ Occupied(d1) /\ Occupied(d2)
       /\ FocusedOn(d1) /\ Shown(d1) \in Range(dateOptions)
       /\ isSchoolDay(Midnight(d2), Schedule) = "true"
       /\ Shown(d2) \notin Range(dateOptions)

\* C2: the scan starts at today when the call is at or before the cutoff (the
\* cutoff instant itself included) and at tomorrow when it is after the
\* cutoff, and then today is not in the result.
C2_StartsTodayOrTomorrow ==
  calls > 0 =>
    /\ callTime <= CutoffInstant => scanned[1] = CivilFromDays(CallDay)
    /\ callTime > CutoffInstant =>
         /\ scanned[1] = CivilFromDays(CallDay + 1)
         /\ Shown(CallDay) \notin Range(dateOptions)

\* C2 witness: a call exactly at the cutoff, which returns today.
C2_Witness ==
  /\ calls > 0
  /\ callTime = CutoffInstant
  /\ Shown(CallDay) \in Range(dateOptions)

\* C3: at most 14 entries are returned, each one of the 14 consecutive days
\* from the start day on, and the scan examines exactly those 14 days.
C3_WindowBound ==
  calls > 0 =>
    /\ Len(dateOptions) <= Window
    /\ Len(scanned) = Window
    /\ \A i \in 1 .. Len(scanned) : scanned[i] = CivilFromDays(ExpectedStartDay + i - 1)
    /\ \A k \in DOMAIN dateOptions :
         /\ DayNumber(dateOptions[k]) >= ExpectedStartDay
         /\ DayNumber(dateOptions[k]) < ExpectedStartDay + Window

\* C3 witness: a call that returns the last day of its window.
C3_Witness ==
  /\ calls > 0
  /\ Shown(ExpectedStartDay + Window - 1) \in Range(dateOptions)
  /\ Len(dateOptions) >= 10

\* C4: the returned dates are strictly ascending, hence without duplicates.
C4_StrictlyAscending ==
  calls > 0 =>
    \A i, j \in DOMAIN dateOptions :
      i < j => DayNumber(dateOptions[i]) < DayNumber(dateOptions[j])

\* C4 witness: a result that runs over the turn of the year.
C4_Witness ==
  /\ calls > 0
  /\ Len(dateOptions) >= 2
  /\ dateOptions[1].year < dateOptions[Len(dateOptions)].year

\* C8: a call changes none of its inputs (no order's date, not the orders
\* mapping, the focused order or the cutoff time), and a second call at the
\* same moment returns what the first one returned.
C8_InputsUnchanged ==
  [][calls' # calls =>
       /\ heap' = heap
       /\ orders' = orders
       /\ focusedOrder' = focusedOrder
       /\ cutoffTime' = cutoffTime
       /\ (calls > 0 /\ callTime = now => dateOptions' = dateOptions)]_vars

\* C8 witness: two calls at the same moment, with an order and a cutoff that
\* lies before the call.
C8_Witness ==
  /\ calls >= 2
  /\ callTime = now
  /\ DOMAIN orders # {}
  /\ callTime > CutoffInstant

\* days from the day of the instant t to the first day a scan made at t examines
ScanOffset(t) ==
  LET start == startDate(newMoment(heap, t), cutoffTime)
  IN  DayOf(start.heap[start.ref]) - DayOf(t)

\* C12: whether today is offered depends on the time of day of the call alone:
\* a call at the same time of day one day earlier or later, with the same
\* cutoffTime, starts its scan at the same offset (today, or tomorrow).
C12_TimeOfDayOnly ==
  calls > 0 =>
    \A shift \in {0 - 1, 1} :
      ScanOffset(callTime + shift * TicksPerDay)
        = DaysFromCivil(scanned[1][1], scanned[1][2], scanned[1][3]) - CallDay

\* ------------------------------------------ getScheduleIndex, isSchoolDay
\* schedules: the school's own, and every cycle of booleans up to MaxCycle
Schedules ==
  {Schedule} \cup
  UNION {{[startDate |-> Schedule.startDate, values |-> v] : v \in [1 .. len -> BOOLEAN]}
           : len \in 1 .. MaxCycle}

\* dates around the schedule's start date, at every time of day
ScheduleDates ==
  {Midnight(ScheduleStartDay + off) + tod :
     off \in (0 - MaxDayOffset) .. MaxDayOffset, tod \in TimesOfDay}

InitSchedule ==
  /\ sSchedule \in Schedules
  /\ sDate \in ScheduleDates
  /\ sIndex = <<>> /\ sShifted = <<>> /\ sSchoolDay = <<>>
  /\ DatesIdle /\ ModalIdle /\ HomeIdle

\* getScheduleIndex(date, startDate, length)
CallGetScheduleIndex ==
  /\ sIndex = <<>>
  /\ sIndex' = <<getScheduleIndex(sDate, sSchedule.startDate, Len(sSchedule.values))>>
  /\ UNCHANGED <<sDate, sSchedule, sShifted, sSchoolDay, datesVars, modalVars, homeVars>>

\* getScheduleIndex(date + length days, startDate, length)
CallGetScheduleIndexShifted ==
  /\ sShifted = <<>>
  /\ sShifted' = <<getScheduleIndex(sDate + Len(sSchedule.values) * TicksPerDay,
                                    sSchedule.startDate, Len(sSchedule.values))>>
  /\ UNCHANGED <<sDate, sSchedule, sIndex, sSchoolDay, datesVars, modalVars, homeVars>>

\* isSchoolDay(date, schedule)
CallIsSchoolDay ==
  /\ sSchoolDay = <<>>
  /\ sSchoolDay' = <<isSchoolDay(sDate, sSchedule)>>
  /\ UNCHANGED <<sDate, sSchedule, sIndex, sShifted, datesVars, modalVars, homeVars>>

NextSchedule == CallGetScheduleIndex \/ CallGetScheduleIndexShifted \/ CallIsSchoolDay
SpecSchedule == InitSchedule /\ [][NextSchedule]_vars

\* C5: the index is an integer of 0 .. L-1 for every date, also for a date
\* before the start date.
C5_IndexInRange ==
  sIndex # <<>> => sIndex[1] \in 0 .. Len(sSchedule.values) - 1

\* C6: the index of a date equals the index of the date L days later.
C6_Periodic ==
  (sIndex # <<>> /\ sShifted # <<>>) => sIndex[1] = sShifted[1]

\* position of a date's day in the week that starts on the schedule's Monday
Weekday(t) == (DayOf(t) - ScheduleStartDay) % 7

\* C7: isSchoolDay returns a boolean for every date, and for the Monday to
\* Friday schedule it is true from Monday to Friday and false on Saturday and
\* Sunday.
C7_SchoolDayTotal ==
  sSchoolDay # <<>> =>
    /\ sSchoolDay[1] \in {"true", "false"}
    /\ sSchedule = Schedule =>
         sSchoolDay[1] = (IF Weekday(sDate) < 5 THEN "true" ELSE "false")

\* ----------------------------------------------------------- getOrdersArr
\* Object.values(orders), in the order of the keys
RECURSIVE objectValues(_, _)
objectValues(obj, ids) ==
  IF ids = {} THEN <<>>
  ELSE LET id == CHOOSE x \in ids : \A y \in ids : x <= y
       IN  <<obj[id]>> \o objectValues(obj, ids \ {id})

\* (mutant) isAfter instead of isSameOrAfter
notPast_strict(h, date, nowRef) == momentIsAfter(h, date, nowRef)

\* date.isSameOrAfter(now)
notPast(h, date, nowRef) == momentIsSameOrAfter(h, date, nowRef)

\* the filter's callback: whether the order is kept
isUpcoming(h, order, cutoff, t) ==
  LET m == newMoment(h, t)
      h1 == IF momentIsBefore(m.heap, m.ref, cutoff)
              THEN momentStartOfDay(m.heap, m.ref)
              ELSE m.heap
  IN  notPast(h1, order.date, m.ref)

\* orderA.date.diff(orderB.date)
compareOrders(h, orderA, orderB) == h[orderA.date] - h[orderB.date]

\* Array.prototype.sort (stable): x goes behind every element not after it
RECURSIVE insertSorted(_, _, _)
insertSorted(h, arr, x) ==
  IF arr = <<>> THEN <<x>>
  ELSE IF compareOrders(h, Head(arr), x) <= 0
         THEN <<Head(arr)>> \o insertSorted(h, Tail(arr), x)
         ELSE <<x>> \o arr

RECURSIVE sortOrders(_, _, _)
sortOrders(h, arr, acc) ==
  IF arr = <<>> THEN acc
  ELSE sortOrders(h, Tail(arr), insertSorted(h, acc, Head(arr)))

\* getOrdersArr(orders, cutoffTime) at clock t over heap h
getOrdersArr(h, ords, cutoff, t) ==
  LET all == objectValues(ords, DOMAIN ords)
      upcoming == SelectSeq(all, LAMBDA order : isUpcoming(h, order, cutoff, t))
      sorted == sortOrders(h, upcoming, <<>>)
  IN  [i \in 1 .. Len(sorted) |->
         [sorted[i] EXCEPT !.date = formatReadable(h[sorted[i].date])]]

\* mapStateToProps of the home screen
CallGetOrdersArr ==
  /\ calls < MaxCalls
  /\ ordersArr' = getOrdersArr(heap, orders, cutoffTime, now)
  /\ callTime' = now
  /\ calls' = calls + 1
  /\ UNCHANGED <<heap, orders, focusedOrder, cutoffTime, now, dateOptions, scanned>>
  /\ UNCHANGED <<scheduleVars, modalVars, homeVars>>

InitOrders == InitStore /\ ScheduleIdle /\ ModalIdle /\ HomeIdle
NextOrders == Tick \/ CallGetOrdersArr
SpecOrders == InitOrders /\ [][NextOrders]_vars

\* the instant an order's date has to reach to be shown
Threshold == IF callTime < CutoffInstant THEN Midnight(CallDay) ELSE callTime

\* the orders that are not in the past
Upcoming == {id \in DOMAIN orders : heap[orders[id].date] >= Threshold}

\* C9: getOrdersArr returns exactly the orders that are not in the past, each
\* once, sorted from the soonest to the farthest date, with the date in its
\* display form.
C9_UpcomingSorted ==
  calls > 0 =>
    /\ {ordersArr[i].key : i \in DOMAIN ordersArr} = Upcoming
    /\ Len(ordersArr) = Cardinality(Upcoming)
    /\ \A i, j \in DOMAIN ordersArr :
         i < j => heap[orders[ordersArr[i].key].date] <= heap[orders[ordersArr[j].key].date]
    /\ \A i \in DOMAIN ordersArr :
         ordersArr[i].date = Shown(DayOf(heap[orders[ordersArr[i].key].date]))

\* C9 witness: today's order is shown before the cutoff, ahead of a later
\* order that comes first in the store.
C9_Witness ==
  /\ calls > 0
  /\ callTime < CutoffInstant
  /\ Len(ordersArr) = 2
  /\ ordersArr[1].key > ordersArr[2].key
  /\ ordersArr[1].date = Shown(CallDay)

\* -------------------------------------------------------------- InfoModal
\* Time in seconds until modal automatically closes
CLOSE_MODAL_TIMEOUT == 10
\* String that represents a closed modal
CLOSED_INFO_MODAL == "    "
\* messages the app sets
Messages == {"", "message 1", "message 2"}

\* (mutant) leaves the timer of the older message running
clearTimeout_forgotten(pending, id) == pending

\* if (timeoutRef.current) clearTimeout(timeoutRef.current)
clearTimeout(pending, id) == IF id # 0 THEN {t \in pending : t.id # id} ELSE pending

\* setTimeout(closeModal, CLOSE_MODAL_TIMEOUT * 1000) at time t, handing out id
setTimeout(pending, id, t) == pending \cup {[id |-> id, due |-> t + CLOSE_MODAL_TIMEOUT]}

\* the start callback of an animation: if (!open) displayMessage()
animationCallback(anim, displayed) ==
  IF anim # <<>> /\ ~anim[1].open THEN anim[1].message ELSE displayed

\* (mutant) shows the message at once also when the modal closes
toggleAnimation_displaysAtOnce(open, message, anim, displayed) ==
  [displayedMessage |-> message,
   animation |-> <<[open |-> open, message |-> message]>>]

\* toggleAnimation(open, animated, () => displayMessage(message)): setValue
\* stops a running animation, whose callback runs; an opening modal shows the
\* message at once; the timing animation starts
toggleAnimation(open, message, anim, displayed) ==
  [displayedMessage |-> IF open THEN message ELSE animationCallback(anim, displayed),
   animation |-> <<[open |-> open, message |-> message]>>]

\* the effect of InfoModal, run when infoMessage has become message, with
\* the timers in pending still to fire
RunEffect(message, pending) ==
  LET toggled == toggleAnimation(message # CLOSED_INFO_MODAL, message, animation,
                                 displayedMessage)
  IN  /\ timers' = setTimeout(clearTimeout(pending, timeoutRef), timeoutRef + 1, clock)
      /\ timeoutRef' = timeoutRef + 1
      /\ displayedMessage' = toggled.displayedMessage
      /\ animation' = toggled.animation
      /\ lastChange' = clock

\* the modal as mounted: the effect has run once for the message in the state
InitModal ==
  /\ infoMessage \in Messages \cup {CLOSED_INFO_MODAL}
  /\ displayedMessage = infoMessage
  /\ animation = <<[open |-> infoMessage # CLOSED_INFO_MODAL, message |-> infoMessage]>>
  /\ timers = setTimeout({}, 1, 0)
  /\ timeoutRef = 1
  /\ clock = 0 /\ lastChange = 0 /\ closedBy = "none" /\ restarted = FALSE
  /\ DatesIdle /\ ScheduleIdle /\ HomeIdle

\* SET_INFO_MESSAGE: the app shows a message
SetInfoMessage(m) ==
  /\ m # infoMessage
  /\ timeoutRef < MaxTimers - 1
  /\ clock + CLOSE_MODAL_TIMEOUT <= MaxClock
  /\ infoMessage' = m
  /\ RunEffect(m, timers)
  /\ restarted' = (infoMessage # CLOSED_INFO_MODAL /\ clock > lastChange)
  /\ closedBy' = "none"
  /\ UNCHANGED <<clock, datesVars, scheduleVars, homeVars>>

\* onPress={closeModal}: the user taps the open modal
PressModal ==
  /\ infoMessage # CLOSED_INFO_MODAL
  /\ timeoutRef < MaxTimers - 1
  /\ infoMessage' = CLOSED_INFO_MODAL
  /\ RunEffect(CLOSED_INFO_MODAL, timers)
  /\ closedBy' = "press"
  /\ UNCHANGED <<clock, restarted, datesVars, scheduleVars, homeVars>>

\* a timer set by the effect is due: closeModal
TimerFires(t) ==
  /\ t \in timers
  /\ t.due <= clock
  /\ IF infoMessage # CLOSED_INFO_MODAL
       THEN /\ infoMessage' = CLOSED_INFO_MODAL
            /\ RunEffect(CLOSED_INFO_MODAL, timers \ {t})
            /\ closedBy' = "timer"
       ELSE /\ timers' = timers \ {t}
            /\ UNCHANGED <<infoMessage, timeoutRef, displayedMessage, animation,
                           lastChange, closedBy>>
  /\ UNCHANGED <<clock, restarted, datesVars, scheduleVars, homeVars>>

\* the timing animation (100 ms) ends and its callback runs
AnimationEnds ==
  /\ animation # <<>>
  /\ displayedMessage' = animationCallback(animation, displayedMessage)
  /\ animation' = <<>>
  /\ UNCHANGED <<infoMessage, timers, timeoutRef, clock, lastChange, closedBy, restarted,
                 datesVars, scheduleVars, homeVars>>

\* a second passes; timers fire when they are due and animations are shorter
TickSecond ==
  /\ clock < MaxClock
  /\ animation = <<>>
  /\ \A t \in timers : t.due > clock
  /\ clock' = clock + 1
  /\ UNCHANGED <<infoMessage, displayedMessage, animation, timers, timeoutRef,
                 lastChange, closedBy, restarted, datesVars, scheduleVars, homeVars>>

NextModal ==
  \/ \E m \in Messages : SetInfoMessage(m)
  \/ PressModal
  \/ \E t \in timers : TimerFires(t)
  \/ AnimationEnds
  \/ TickSecond
\* the event loop runs due timers and animation callbacks, and time passes
FairModal ==
  /\ WF_vars(\E t \in timers : TimerFires(t))
  /\ WF_vars(AnimationEnds)
  /\ WF_vars(TickSecond)
SpecModal == InitModal /\ [][NextModal]_vars /\ FairModal

\* C10: the countdown of the last change of infoMessage is pending as long as
\* the modal is open; a timer closes the modal only 10 seconds after the last
\* change of infoMessage, never earlier on behalf of an older message; and an
\* open modal is closed eventually.
C10_ClosesByTimeout ==
  /\ [](infoMessage # CLOSED_INFO_MODAL =>
          \E t \in timers : t.id = timeoutRef /\ t.due = lastChange + CLOSE_MODAL_TIMEOUT)
  /\ [][(infoMessage # CLOSED_INFO_MODAL /\ infoMessage' = CLOSED_INFO_MODAL
           /\ closedBy' = "timer")
          => clock = lastChange + CLOSE_MODAL_TIMEOUT]_vars
  /\ [](infoMessage # CLOSED_INFO_MODAL => clock <= lastChange + CLOSE_MODAL_TIMEOUT)
  /\ ((infoMessage # CLOSED_INFO_MODAL) ~> (infoMessage = CLOSED_INFO_MODAL))

\* C10 witness: a message that replaced an older one while its countdown ran
\* has been closed by its own timer.
C10_Witness ==
  /\ infoMessage = CLOSED_INFO_MODAL
  /\ closedBy = "timer"
  /\ restarted
  /\ clock = lastChange

\* the render of InfoModal: null when the modal is closed
rendersNothing(message, displayed) ==
  displayed = CLOSED_INFO_MODAL /\ message = CLOSED_INFO_MODAL

\* C11: with the empty string as infoMessage the modal is hidden: the
\* transition it runs is the closing one and, once it has settled, nothing is
\* rendered.
C11_EmptyStringHides ==
  infoMessage = "" =>
    /\ animation # <<>> => ~animation[1].open
    /\ animation = <<>> => rendersNothing(infoMessage, displayedMessage)

\* a closing animation is running
Closing == animation # <<>> /\ ~animation[1].open

\* C13: the text follows the message in animation order. A message that opens
\* the modal is displayed from the start of the opening animation on; a
\* closed modal keeps its text while the closing animation runs and takes the
\* closed value only when that animation completes; nothing is rendered
\* exactly when both infoMessage and displayedMessage are the closed value.
C13_TextFollowsAnimation ==
  /\ [][(infoMessage' # infoMessage /\ infoMessage' # CLOSED_INFO_MODAL)
          => (displayedMessage' = infoMessage' /\ animation' # <<>> /\ animation'[1].open)]_vars
  /\ [](animation # <<>> /\ animation[1].open => displayedMessage = animation[1].message)
  /\ [][(infoMessage # CLOSED_INFO_MODAL /\ infoMessage' = CLOSED_INFO_MODAL)
          => (displayedMessage' = displayedMessage /\ Closing')]_vars
  /\ [][(displayedMessage # CLOSED_INFO_MODAL /\ displayedMessage' = CLOSED_INFO_MODAL)
          => (Closing /\ animation' = <<>>)]_vars
  /\ [](rendersNothing(infoMessage, displayedMessage)
          <=> (infoMessage = CLOSED_INFO_MODAL /\ displayedMessage = CLOSED_INFO_MODAL))

\* C13 witness: the user has closed a modal that showed a message, and the
\* closing animation has completed.
C13_Witness ==
  /\ closedBy = "press"
  /\ infoMessage = CLOSED_INFO_MODAL
  /\ displayedMessage = CLOSED_INFO_MODAL
  /\ animation = <<>>

\* ------------------------------------------------- HomeScreen: storage
\* JSON.stringify of an array of objects: one set of <<property, value>> per
\* element; properties whose value is undefined are left out
jsonStringify(value) ==
  [i \in 1 .. Len(value) |->
     {<<k, value[i][k]>> : k \in {x \in DOMAIN value[i] : value[i][x] # "undefined"}}]

\* JSON.parse of such a text
jsonParse(text) ==
  [i \in 1 .. Len(text) |->
     [k \in {p[1] : p \in text[i]} |-> (CHOOSE p \in text[i] : p[1] = k)[2]]]

\* order options the school may have configured
Bread == [key |-> "bread", title |-> "Bread", type |-> "PICKER"]
BreadChecked == [key |-> "bread", title |-> "Bread", type |-> "CHECKBOX"]
Meat == [key |-> "meat", title |-> "Meat", type |-> "PICKER"]
OrderOptionsValues == {<<>>, <<Bread>>, <<BreadChecked>>, <<Bread, Meat>>}

\* (mutant) stores the current options before it asks for the previous ones
effectRequests_storeFirst(loaded, options) ==
  <<[op |-> "setItem", value |-> <<jsonStringify(options)>>]>> \o
  (IF ~loaded THEN <<[op |-> "getItem", value |-> <<>>]>> ELSE <<>>)

\* the AsyncStorage requests one run of the effect issues: getData's getItem
\* while the data is not loaded, then storeData's setItem
effectRequests(loaded, options) ==
  (IF ~loaded THEN <<[op |-> "getItem", value |-> <<>>]>> ELSE <<>>) \o
  <<[op |-> "setItem", value |-> <<jsonStringify(options)>>]>>

\* getData's result for an item: null, or the parsed options
getData(item) == IF item # <<>> THEN <<jsonParse(item[1])>> ELSE <<>>

\* the callback of getData().then: whether the alert is shown
optionsChanged(prevOptions, options) ==
  /\ prevOptions # <<>>
  /\ jsonStringify(prevOptions[1]) # jsonStringify(options)

\* the screen as mounted, with what the previous session stored, if anything
InitHome ==
  /\ orderOptions \in OrderOptionsValues
  /\ storage \in {<<>>} \cup {<<jsonStringify(v)>> : v \in OrderOptionsValues}
  /\ storedAtLoad = storage
  /\ loadedData = FALSE
  /\ requests = <<>> /\ resolved = <<>> /\ alerts = 0 /\ effectRuns = 0
  /\ DatesIdle /\ ScheduleIdle /\ ModalIdle

\* the effect runs: after the first render, and when orderPresets changes
StorageEffect ==
  /\ effectRuns < MaxEffectRuns
  /\ requests' = requests \o effectRequests(loadedData, orderOptions)
  /\ effectRuns' = effectRuns + 1
  /\ UNCHANGED <<storage, orderOptions, loadedData, resolved, alerts, storedAtLoad,
                 datesVars, scheduleVars, modalVars>>

\* AsyncStorage serves the oldest request
StorageServes ==
  /\ requests # <<>>
  /\ IF Head(requests).op = "getItem"
       THEN /\ resolved' = Append(resolved, storage)
            /\ UNCHANGED storage
       ELSE /\ storage' = Head(requests).value
            /\ UNCHANGED resolved
  /\ requests' = Tail(requests)
  /\ UNCHANGED <<orderOptions, loadedData, alerts, effectRuns, storedAtLoad,
                 datesVars, scheduleVars, modalVars>>

\* getData resolves and its then-callback runs
GetDataResolves ==
  /\ resolved # <<>>
  /\ loadedData' = TRUE
  /\ alerts' = IF optionsChanged(getData(Head(resolved)), orderOptions)
                 THEN alerts + 1 ELSE alerts
  /\ resolved' = Tail(resolved)
  /\ UNCHANGED <<storage, orderOptions, requests, effectRuns, storedAtLoad,
                 datesVars, scheduleVars, modalVars>>

NextHome == StorageEffect \/ StorageServes \/ GetDataResolves
SpecHome == InitHome /\ [][NextHome]_vars

\* the effect has run and nothing it started is pending
HomeSettled == effectRuns > 0 /\ requests = <<>> /\ resolved = <<>>

\* the previous session stored options whose JSON text differs from the
\* text of the current ones
StoredDiffers ==
  storedAtLoad # <<>> /\ storedAtLoad[1] # jsonStringify(orderOptions)

=============================================================================
